---- MODULE Spec2Model ----
(***************************************************************************)
(* A model of process.py: the ANTLR listener that rebuilds a program model *)
(* (package, classes, fields, methods, call statements) from the parser's  *)
(* enter/exit notifications, the dot renderer, and the asyncio             *)
(* orchestrator that runs one pipeline per file.                           *)
(*                                                                         *)
(* Python objects are modelled with their identity: a JavaClass or a       *)
(* JavaMethod is a cell of a heap and the dicts and the listener's         *)
(* fields hold references (indices) to the cells, because the code keeps   *)
(* several references to one object (_deep_class, _ast.classes,            *)
(* _current_method).  A dict is a sequence of (key, value) entries in      *)
(* insertion order; assigning to an existing key keeps the key's place.    *)
(***************************************************************************)
EXTENDS Integers, Sequences, FiniteSets, TLC

----------------------------------------------------------------------------
(* Python values *)

\* None, for the Optional[JavaMethod] pointer: references start at 1.
None == 0

\* The str '' (parse_class_block's initial value of `implements`).
PyEmptyStr == [py |-> "str", v |-> <<>>]

\* A list of str.
PyList(items) == [py |-> "list", v |-> items]

\* dict: `k in d`
DictHas(d, k) == \E i \in 1..Len(d) : d[i].k = k

\* dict: d[k] for a key that is present
DictGet(d, k) == d[CHOOSE i \in 1..Len(d) : d[i].k = k].v

\* dict: d[k] = v (an existing key keeps its position)
DictSet(d, k, v) ==
    IF DictHas(d, k)
    THEN [i \in 1..Len(d) |-> IF d[i].k = k THEN [k |-> k, v |-> v] ELSE d[i]]
    ELSE Append(d, [k |-> k, v |-> v])

----------------------------------------------------------------------------
(* Program model *)

Statement(value, line, column) == [value |-> value, line |-> line, column |-> column]

FieldType(type_, define_) == [type |-> type_, define |-> define_]

ParmType(name, type_) == [name |-> name, type |-> type_]

\* The list and dict attributes are declared with a class-level default
\* (`statements: List[Statement] = []`), one object shared by every instance
\* that does not bind the attribute itself.  `own` is the set of the list
\* and dict attributes bound in the instance; the value recorded for an
\* attribute that is not in `own` is not used, the class-level object is.
\* __init__ binds parameters and statements, then the keyword arguments.
JavaMethod(name, return_type, start, stop, depth, parameters) ==
    [name |-> name, start |-> start, stop |-> stop, depth |-> depth,
     parameters |-> parameters, return_type |-> return_type, statements |-> <<>>,
     own |-> {"parameters", "statements"}]

\* __init__ binds implements, fields, methods and statements, then the
\* keyword arguments.
JavaClass_ClassLevelStatements(name, extends, implements) ==
    [name |-> name, extends |-> extends, implements |-> implements,
     fields |-> <<>>, methods |-> <<>>, statements |-> <<>>,
     own |-> {"implements", "fields", "methods"}]

JavaClass(name, extends, implements) ==
    [name |-> name, extends |-> extends, implements |-> implements,
     fields |-> <<>>, methods |-> <<>>, statements |-> <<>>,
     own |-> {"implements", "fields", "methods", "statements"}]

\* __init__ binds imports and classes.
JavaFileAst ==
    [package_name |-> "", imports |-> <<>>, classes |-> <<>>,
     own |-> {"imports", "classes"}]

\* The listener after construction.  cheap/mheap are the JavaClass and
\* JavaMethod objects created so far; _deep_class is a dict depth -> class.
CollectListener ==
    [ast |-> JavaFileAst, cheap |-> <<>>, mheap |-> <<>>,
     deep_class |-> <<>>, deep |-> 0, current_method |-> None]

----------------------------------------------------------------------------
(* Structural decoders.  A raised exception is returned as exc # "None". *)

NoExc == "None"

RECURSIVE EvenIndexed(_, _)
\* texts of children i, i+2, ... of an implements list (i is 0-based)
EvenIndexed(children, i) ==
    IF i >= Len(children) THEN <<>>
    ELSE IF i % 2 = 0 THEN <<children[i + 1]>> \o EvenIndexed(children, i + 1)
    ELSE EvenIndexed(children, i + 1)

\* parse_implements_block with its loop one child short
parse_implements_block_Short(ctx) ==
    IF Len(ctx) = 1 THEN <<ctx[1]>>
    ELSE IF Len(ctx) > 1 THEN EvenIndexed(SubSeq(ctx, 1, Len(ctx) - 1), 0)
    ELSE <<>>

\* ctx is the sequence of the texts of the node's children
parse_implements_block(ctx) ==
    IF Len(ctx) = 1 THEN <<ctx[1]>>
    ELSE IF Len(ctx) > 1 THEN EvenIndexed(ctx, 0)
    ELSE <<>>

\* ctx = [cc: child count, c1: text of child 1, c2: text of child 2,
\*        c3c0: text of child 3's child 0, impl: children of the implements list]
\* L is the listener (for the 2-child form).
parse_class_block(L, ctx) ==
    LET decoded ==
            IF ctx.cc = 7
            THEN [name |-> ctx.c1, extends |-> ctx.c3c0,
                  implements |-> PyList(parse_implements_block(ctx.impl))]
            ELSE IF ctx.cc = 5
            THEN [name |-> ctx.c1,
                  extends |-> IF ctx.c2 = "extends" THEN ctx.c3c0 ELSE "",
                  implements |-> IF ctx.c2 = "implements"
                                 THEN PyList(parse_implements_block(ctx.impl))
                                 ELSE PyEmptyStr]
            ELSE IF ctx.cc = 3
            THEN [name |-> ctx.c1, extends |-> "", implements |-> PyEmptyStr]
            ELSE IF ctx.cc = 2
            THEN [name |-> L.cheap[DictGet(L.deep_class, L.deep)].name,
                  extends |-> "", implements |-> PyEmptyStr]
            ELSE [name |-> "", extends |-> "", implements |-> PyEmptyStr]
        failed(e) == [exc |-> e, name |-> "", extends |-> "", implements |-> PyEmptyStr]
    IN  IF ctx.cc < 2 THEN failed("AttributeError")
        ELSE IF ctx.cc = 2 /\ ~DictHas(L.deep_class, L.deep) THEN failed("KeyError")
        ELSE IF decoded.name = "" THEN failed("Exception")
        ELSE [exc |-> NoExc, name |-> decoded.name, extends |-> decoded.extends,
              implements |-> decoded.implements]

RECURSIVE EvenParams(_, _)
EvenParams(children, i) ==
    IF i >= Len(children) THEN <<>>
    ELSE IF i % 2 = 0
    THEN <<ParmType(children[i + 1].name, children[i + 1].type)>> \o EvenParams(children, i + 1)
    ELSE EvenParams(children, i + 1)

\* ctx = [cc: child count, params: children of child 1, each [type, name]]
parse_method_params_block(ctx) ==
    IF ctx.cc = 3
    THEN IF Len(ctx.params) = 1
         THEN <<ParmType(ctx.params[1].name, ctx.params[1].type)>>
         ELSE IF Len(ctx.params) > 1 THEN EvenParams(ctx.params, 0)
         ELSE <<>>
    ELSE <<>>

----------------------------------------------------------------------------
(* Listener handlers.  Each takes the listener and the notification's node *)
(* and returns the listener afterwards, the exception raised (NoExc if     *)
(* none) and the records it logged at warning level.                       *)

Returned(L) == [exc |-> NoExc, st |-> L, log |-> <<>>]

Raised(L, e) == [exc |-> e, st |-> L, log |-> <<>>]

\* dict: d.pop(k) for a key that is present
DictPop(d, k) == SelectSeq(d, LAMBDA e : e.k # k)

\* self._deep_class[self._deep] is defined
HasCurrentClass(L) == DictHas(L.deep_class, L.deep)

\* self._deep_class[self._deep] (a reference into cheap)
CurrentClass(L) == DictGet(L.deep_class, L.deep)

\* ctx = [name: text of the qualified name]
enterPackageDeclaration(L, ctx) ==
    Returned([L EXCEPT !.ast.package_name = ctx.name])

enterImportDeclaration(L, ctx) ==
    Returned([L EXCEPT !.ast.imports = Append(@, ctx.name)])

\* enterClassDeclaration keeping the entry classes already has for the name
enterClassDeclaration_FirstWins(L, ctx) ==
    LET r == parse_class_block(L, ctx)
        ref == Len(L.cheap) + 1
    IN  IF r.exc # NoExc THEN Raised(L, r.exc)
        ELSE IF DictHas(L.ast.classes, r.name)
        THEN Returned([L EXCEPT
                 !.deep = @ + 1,
                 !.deep_class = DictSet(@, L.deep + 1, DictGet(L.ast.classes, r.name))])
        ELSE Returned([L EXCEPT
                 !.deep = @ + 1,
                 !.cheap = Append(@, JavaClass(r.name, r.extends, r.implements)),
                 !.ast.classes = DictSet(@, r.name, ref),
                 !.deep_class = DictSet(@, L.deep + 1, ref)])

\* enterClassDeclaration adding to the depth before it decodes the header
enterClassDeclaration_DepthFirst(L, ctx) ==
    LET r == parse_class_block(L, ctx)
        ref == Len(L.cheap) + 1
    IN  IF r.exc # NoExc THEN Raised([L EXCEPT !.deep = @ + 1], r.exc)
        ELSE Returned([L EXCEPT
                 !.deep = @ + 1,
                 !.cheap = Append(@, JavaClass(r.name, r.extends, r.implements)),
                 !.ast.classes = DictSet(@, r.name, ref),
                 !.deep_class = DictSet(@, L.deep + 1, ref)])

\* ctx: a class header, see parse_class_block
enterClassDeclaration(L, ctx) ==
    LET r == parse_class_block(L, ctx)
        ref == Len(L.cheap) + 1
    IN  IF r.exc # NoExc THEN Raised(L, r.exc)
        ELSE Returned([L EXCEPT
                 !.deep = @ + 1,
                 !.cheap = Append(@, JavaClass(r.name, r.extends, r.implements)),
                 !.ast.classes = DictSet(@, r.name, ref),
                 !.deep_class = DictSet(@, L.deep + 1, ref)])

\* exitClassDeclaration without its `self._deep -= 1`
exitClassDeclaration_KeepDepth(L) ==
    IF ~HasCurrentClass(L) THEN Raised(L, "KeyError")
    ELSE Returned([L EXCEPT !.deep_class = DictPop(@, L.deep)])

\* exitClassDeclaration without its `self._deep_class.pop(self._deep)`
exitClassDeclaration_KeepRegistration(L) ==
    IF ~HasCurrentClass(L) THEN Raised(L, "KeyError")
    ELSE Returned([L EXCEPT !.deep = @ - 1])

exitClassDeclaration(L) ==
    IF ~HasCurrentClass(L) THEN Raised(L, "KeyError")
    ELSE Returned([L EXCEPT !.deep_class = DictPop(@, L.deep), !.deep = @ - 1])

\* ctx = [c0: text of child 0, c1: text of child 1, anc: the fourth ancestor]
enterFieldDeclaration(L, ctx) ==
    LET r == parse_class_block(L, ctx.anc)
    IN  IF r.exc # NoExc THEN Raised(L, r.exc)
        ELSE IF ~HasCurrentClass(L) THEN Raised(L, "KeyError")
        ELSE LET cur == L.cheap[CurrentClass(L)]
                 target == DictGet(L.ast.classes, cur.name)
             IN  IF r.name # cur.name THEN Raised(L, "Exception")
                 ELSE Returned([L EXCEPT
                          !.cheap[target].fields = Append(@, FieldType(ctx.c0, ctx.c1))])

\* enterMethodDeclaration replacing the Method a duplicate declaration names
enterMethodDeclaration_LastWins(L, ctx) ==
    IF ~HasCurrentClass(L) THEN Raised(L, "KeyError")
    ELSE LET cur == L.cheap[CurrentClass(L)]
             target == DictGet(L.ast.classes, cur.name)
             mref == Len(L.mheap) + 1
         IN  Returned([L EXCEPT
                 !.mheap = Append(@, JavaMethod(ctx.c1, ctx.c0, ctx.start, ctx.stop,
                              ctx.depth, parse_method_params_block(ctx.c2))),
                 !.cheap[target].methods = DictSet(@, ctx.c1, mref),
                 !.current_method = mref])

\* ctx = [c0: return type text, c1: name text, start, stop: lines,
\*        depth: ctx.depth(), c2: the formal-parameters node]
enterMethodDeclaration(L, ctx) ==
    IF ~HasCurrentClass(L) THEN Raised(L, "KeyError")
    ELSE LET cur == L.cheap[CurrentClass(L)]
             target == DictGet(L.ast.classes, cur.name)
             mref == Len(L.mheap) + 1
         IN  IF ~DictHas(cur.methods, ctx.c1)
             THEN Returned([L EXCEPT
                      !.mheap = Append(@, JavaMethod(ctx.c1, ctx.c0, ctx.start, ctx.stop,
                                   ctx.depth, parse_method_params_block(ctx.c2))),
                      !.cheap[target].methods = DictSet(@, ctx.c1, mref),
                      !.current_method = mref])
             ELSE [exc |-> NoExc, st |-> L, log |-> <<[level |-> "warning", name |-> ctx.c1]>>]

exitMethodDeclaration(L) ==
    Returned([L EXCEPT !.current_method = None])

\* enterMethodCall attributing every call to the class
enterMethodCall_ToClass(L, ctx) ==
    LET statement == Statement(ctx.c0, ctx.line, ctx.column)
    IN  IF ~HasCurrentClass(L) THEN Raised(L, "KeyError")
        ELSE LET target == DictGet(L.ast.classes, L.cheap[CurrentClass(L)].name)
             IN  Returned([L EXCEPT !.cheap[target].statements = Append(@, statement)])

\* ctx = [c0: text of child 0, line, column]
enterMethodCall(L, ctx) ==
    LET statement == Statement(ctx.c0, ctx.line, ctx.column)
    IN  IF L.current_method = None
        THEN IF ~HasCurrentClass(L) THEN Raised(L, "KeyError")
             ELSE LET target == DictGet(L.ast.classes, L.cheap[CurrentClass(L)].name)
                  IN  Returned([L EXCEPT !.cheap[target].statements = Append(@, statement)])
        ELSE Returned([L EXCEPT !.mheap[L.current_method].statements = Append(@, statement)])

enterEnumDeclaration(L, ctx) == enterClassDeclaration(L, ctx)

exitEnumDeclaration(L) == exitClassDeclaration(L)

----------------------------------------------------------------------------
(* Graph renderer *)

Quoted(s) == "\"" \o s \o "\""

NodeLine(name) == Quoted(name)

EdgeLine(from, to) == Quoted(from) \o " -> " \o Quoted(to) \o ";"

RECURSIVE StmtLines_Dedup(_, _, _)
\* StmtLines emitting an edge only for the first statement of each callee
StmtLines_Dedup(from, stmts, i) ==
    IF i > Len(stmts) THEN <<>>
    ELSE (IF \E j \in 1..(i - 1) : stmts[j].value = stmts[i].value
          THEN <<>> ELSE <<EdgeLine(from, stmts[i].value)>>)
         \o StmtLines_Dedup(from, stmts, i + 1)

RECURSIVE StmtLines(_, _, _)
\* the edge lines of statements i.. of a class or a method called `from`
StmtLines(from, stmts, i) ==
    IF i > Len(stmts) THEN <<>>
    ELSE <<EdgeLine(from, stmts[i].value)>> \o StmtLines(from, stmts, i + 1)

RECURSIVE MethodLines(_, _, _, _)
\* the lines of the methods i.. of the class called `name`
MethodLines(L, name, methods, i) ==
    IF i > Len(methods) THEN <<>>
    ELSE <<NodeLine(methods[i].k), EdgeLine(name, methods[i].k)>>
         \o StmtLines(methods[i].k, L.mheap[methods[i].v].statements, 1)
         \o MethodLines(L, name, methods, i + 1)

RECURSIVE ClassLines(_, _)
\* the lines of the classes i.. of the model
ClassLines(L, i) ==
    IF i > Len(L.ast.classes) THEN <<>>
    ELSE LET name == L.ast.classes[i].k
             class_ == L.cheap[L.ast.classes[i].v]
         IN  <<NodeLine(name)>>
             \o StmtLines(name, class_.statements, 1)
             \o MethodLines(L, name, class_.methods, 1)
             \o ClassLines(L, i + 1)

\* the list `digraph` of JavaFileAst.dot
digraph(L) == <<"digraph \"callGraph\" {">> \o ClassLines(L, 1) \o <<"}">>

RECURSIVE Join(_, _)
\* '\n'.join(lines[i..])
Join(lines, i) ==
    IF i > Len(lines) THEN ""
    ELSE IF i = Len(lines) THEN lines[i]
    ELSE lines[i] \o "\n" \o Join(lines, i + 1)

dot(L) == Join(digraph(L), 1)

----------------------------------------------------------------------------
(* One file's pipeline: JavaCallGraph.process.  The walker delivers the    *)
(* notifications of a depth-first walk, so an exit notification is always  *)
(* that of the innermost entered declaration.                              *)

VARIABLES
    bad,     \* bad[f]: the walk of file f raises
    task,    \* task[f]: the asyncio task running create for file f
    work,    \* work[f]: the executor's work item running process for file f
    outfile, \* outfile[f]: the output file of f exists
    outcome, \* outcome[f]: what create has logged for f
    mainpc   \* where main is

mvars == <<bad, task, work, outfile, outcome, mainpc>>

VARIABLES
    dctx,    \* the children of an implements-list node handed to the decoder
    dres     \* what the decoder returned for it

dvars == <<dctx, dres>>

VARIABLES
    shared,  \* the class-level list and dict objects of the model classes
    pp       \* pp[f]: the pipeline of file f, of two that run side by side

xvars == <<shared, pp>>

VARIABLES
    family,  \* the family the file walked is drawn from
    lst,     \* the CollectListener of the pipeline
    trace,   \* the notifications delivered so far
    open,    \* the declarations the walker has entered and not left
    pc,      \* "walk": in walker.walk; "done": process has returned
    exc,     \* the exception process has raised, NoExc if none
    out,     \* the output file
    log      \* the records logged at warning level

\* the output file before it is written
NoFile == [exists |-> FALSE, text |-> ""]

\* The files walked are drawn from two families: "any" file, whose
\* notifications carry every node shape of the sets below, in streams of at
\* most MaxEvents notifications; and "plain" files, of three-child class
\* headers and parameterless methods only, in streams of at most
\* MaxPlainEvents notifications.
Families == {"any", "plain"}

MaxEvents == 4

MaxPlainEvents == 7

ClassNames == {"C", "D"}

MethodNames == IF family = "plain" THEN {"m"} ELSE {"m", "n"}

Callees == {"foo", "bar"}

Header(cc, c1, c2, c3c0, impl) ==
    [cc |-> cc, c1 |-> c1, c2 |-> c2, c3c0 |-> c3c0, impl |-> impl]

\* class headers: class N {..}; class C implements I, J {..};
\* class D extends B {..}; class C extends B implements I {..};
\* a two-child node; an unrecognized shape; a node without child 1
ClassHeaders ==
    IF family = "plain" THEN {Header(3, n, "{}", "", <<>>) : n \in ClassNames} ELSE
    {Header(3, n, "{}", "", <<>>) : n \in ClassNames}
    \cup {Header(5, "C", "implements", "", <<"I", ",", "J">>),
          Header(5, "D", "extends", "B", <<>>),
          Header(7, "C", "extends", "B", <<"I">>),
          Header(2, "()", "{}", "", <<>>),
          Header(4, "C", "<T>", "", <<>>),
          Header(1, "", "", "", <<>>)}

\* enum headers: enum D {X}; enum D {}
EnumHeaders ==
    IF family = "plain" THEN {} ELSE
    {Header(5, "D", "{", "", <<>>), Header(4, "D", "{", "", <<>>)}

\* the fourth ancestor of a field declaration
FieldAncestors ==
    IF family = "plain" THEN {} ELSE
    {Header(3, n, "{}", "", <<>>) : n \in ClassNames}
    \cup {Header(2, "()", "{}", "", <<>>), Header(4, "C", "<T>", "", <<>>)}

\* return type and formal parameters: void (), int (int a)
Signatures ==
    IF family = "plain" THEN {[c0 |-> "void", c2 |-> [cc |-> 2, params |-> <<>>]]} ELSE
    {[c0 |-> "void", c2 |-> [cc |-> 2, params |-> <<>>]],
     [c0 |-> "int", c2 |-> [cc |-> 3, params |-> <<[type |-> "int", name |-> "a"]>>]]}

\* the line of the next notification's node
Line == Len(trace) + 1

\* a notification as recorded in trace: its kind, its node, and the class
\* registered at the current depth when it is delivered (None if there is none)
Event(kind, ctx) ==
    [kind |-> kind, ctx |-> ctx,
     cur |-> IF HasCurrentClass(lst) THEN CurrentClass(lst) ELSE None]

\* the walker calls a handler; an exception ends walker.walk and process
Deliver(n, r, open_) ==
    /\ pc = "walk"
    /\ exc = NoExc
    /\ Len(trace) < (IF family = "plain" THEN MaxPlainEvents ELSE MaxEvents)
    /\ trace' = Append(trace, n)
    /\ lst' = r.st
    /\ log' = log \o r.log
    /\ exc' = r.exc
    /\ open' = IF r.exc = NoExc THEN open_ ELSE open
    /\ UNCHANGED <<family, pc, out>>
    /\ UNCHANGED <<mvars, dvars, xvars>>

Top == open[Len(open)]

Pop == SubSeq(open, 1, Len(open) - 1)

PackageDeclaration ==
    /\ trace = <<>>
    /\ \E ctx \in {[name |-> "pkg"]} :
          Deliver(Event("enterPackage", ctx), enterPackageDeclaration(lst, ctx), open)

ImportDeclaration ==
    /\ open = <<>>
    /\ family = "any"
    /\ \A i \in 1..Len(trace) : trace[i].kind \in {"enterPackage", "enterImport"}
    /\ \E ctx \in {[name |-> "java.util.List"]} :
          Deliver(Event("enterImport", ctx), enterImportDeclaration(lst, ctx), open)

EnterClass ==
    /\ \E ctx \in ClassHeaders :
        Deliver(Event("enterClass", ctx), enterClassDeclaration(lst, ctx),
                Append(open, "class"))

ExitClass ==
    /\ open # <<>> /\ Top = "class"
    /\ Deliver(Event("exitClass", <<>>), exitClassDeclaration(lst), Pop)

EnterEnum ==
    /\ \E ctx \in EnumHeaders :
        Deliver(Event("enterEnum", ctx), enterEnumDeclaration(lst, ctx),
                Append(open, "enum"))

ExitEnum ==
    /\ open # <<>> /\ Top = "enum"
    /\ Deliver(Event("exitEnum", <<>>), exitEnumDeclaration(lst), Pop)

EnterField ==
    /\ \E anc \in FieldAncestors :
        LET ctx == [c0 |-> "int", c1 |-> "x", anc |-> anc]
        IN  Deliver(Event("enterField", ctx), enterFieldDeclaration(lst, ctx), open)

EnterMethod ==
    /\ \E name \in MethodNames, sig \in Signatures :
        LET ctx == [c0 |-> sig.c0, c1 |-> name, start |-> Line, stop |-> Line,
                    depth |-> Len(open) + 1, c2 |-> sig.c2]
        IN  Deliver(Event("enterMethod", ctx), enterMethodDeclaration(lst, ctx),
                    Append(open, "method"))

ExitMethod ==
    /\ open # <<>> /\ Top = "method"
    /\ Deliver(Event("exitMethod", <<>>), exitMethodDeclaration(lst), Pop)

MethodCall ==
    /\ \E callee \in Callees :
        LET ctx == [c0 |-> callee, line |-> Line, column |-> 0]
        IN  Deliver(Event("enterMethodCall", ctx), enterMethodCall(lst, ctx), open)

\* process writing the graph whether or not walker.walk has raised
WriteOutput_Always ==
    /\ pc = "walk"
    /\ out' = [exists |-> TRUE, text |-> dot(lst)]
    /\ pc' = "done"
    /\ UNCHANGED <<family, lst, trace, open, exc, log>>
    /\ UNCHANGED <<mvars, dvars, xvars>>

\* process writing a graph whose rendering consumes the statements it renders
WriteOutput_Consuming ==
    /\ pc = "walk"
    /\ exc = NoExc
    /\ open = <<>>
    /\ out' = [exists |-> TRUE, text |-> dot(lst)]
    /\ lst' = [lst EXCEPT !.cheap = [i \in 1..Len(lst.cheap) |->
                                        [lst.cheap[i] EXCEPT !.statements = <<>>]]]
    /\ pc' = "done"
    /\ UNCHANGED <<family, trace, open, exc, log>>
    /\ UNCHANGED <<mvars, dvars, xvars>>

\* walker.walk has returned: process writes the rendered graph
WriteOutput ==
    /\ pc = "walk"
    /\ exc = NoExc
    /\ open = <<>>
    /\ out' = [exists |-> TRUE, text |-> dot(lst)]
    /\ pc' = "done"
    /\ UNCHANGED <<family, lst, trace, open, exc, log>>
    /\ UNCHANGED <<mvars, dvars, xvars>>

pvars == <<family, lst, trace, open, pc, exc, out, log>>

vars == <<pvars, mvars, dvars, xvars>>

\* no node is handed to the decoder alone
NoDecode ==
    /\ dctx = <<>>
    /\ dres = [returned |-> FALSE, value |-> <<>>]

\* the class-level objects as the class statements create them
ClassLevel ==
    [imports |-> <<>>, classes |-> <<>>,
     implements |-> PyList(<<>>), fields |-> <<>>, methods |-> <<>>,
     class_statements |-> <<>>,
     parameters |-> <<>>, method_statements |-> <<>>]

\* no two pipelines are run side by side
NoPair ==
    /\ shared = ClassLevel
    /\ pp = <<>>

\* no batch is run
NoBatch ==
    /\ bad = <<>>
    /\ task = <<>>
    /\ work = <<>>
    /\ outfile = <<>>
    /\ outcome = <<>>
    /\ mainpc = "none"

Init ==
    /\ family \in Families
    /\ lst = CollectListener
    /\ trace = <<>>
    /\ open = <<>>
    /\ pc = "walk"
    /\ exc = NoExc
    /\ out = NoFile
    /\ log = <<>>
    /\ NoBatch
    /\ NoDecode
    /\ NoPair

Next ==
    \/ PackageDeclaration
    \/ ImportDeclaration
    \/ EnterClass
    \/ ExitClass
    \/ EnterEnum
    \/ ExitEnum
    \/ EnterField
    \/ EnterMethod
    \/ ExitMethod
    \/ MethodCall
    \/ WriteOutput

Spec == Init /\ [][Next]_vars

----------------------------------------------------------------------------
(* The orchestrator: main gathers one create task per file; create runs    *)
(* process on the loop's default executor and logs the outcome.  The walk  *)
(* of a file is abridged to its result: it raises (bad) or returns.        *)
(*                                                                         *)
(* asyncio: gather without return_exceptions hands the first exception of  *)
(* a task to its awaiter and leaves the other tasks running; when main     *)
(* has raised, asyncio.run cancels the tasks still pending, which cancels  *)
(* the executor futures they await (a work item not yet picked up by a     *)
(* worker thread is then never run, a running one runs on), and the        *)
(* process ends when the worker threads have ended.                        *)

\* the number of files of the batch
NFiles == 2

Files == 1..NFiles

\* the work item of f has ended
WorkEnded(f) == work[f] \in {"returned", "raised", "cancelled"}

\* the task of f has ended
TaskEnded(f) == task[f] \in {"finished", "failed", "cancelled"}

\* main: tasks = [...]; asyncio.gather(*tasks) schedules a task per file
MainGather ==
    /\ mainpc = "start"
    /\ mainpc' = "gather"
    /\ task' = [f \in Files |-> "scheduled"]
    /\ UNCHANGED <<bad, work, outfile, outcome>>
    /\ UNCHANGED <<pvars, dvars, xvars>>

\* create, up to its await: run_in_executor submits process to the executor.
\* The tasks take their first step in the order gather scheduled them.
CreateSubmit(f) ==
    /\ mainpc = "gather"
    /\ task[f] = "scheduled"
    /\ \A g \in Files : g < f => task[g] # "scheduled"
    /\ task' = [task EXCEPT ![f] = "awaiting"]
    /\ work' = [work EXCEPT ![f] = "queued"]
    /\ UNCHANGED <<bad, outfile, outcome, mainpc>>
    /\ UNCHANGED <<pvars, dvars, xvars>>

\* a worker thread picks the work item up
WorkerStart(f) ==
    /\ work[f] = "queued"
    /\ work' = [work EXCEPT ![f] = "running"]
    /\ UNCHANGED <<bad, task, outfile, outcome, mainpc>>
    /\ UNCHANGED <<pvars, dvars, xvars>>

\* process: walker.walk returns or raises
ProcessWalk(f) ==
    /\ work[f] = "running"
    /\ work' = [work EXCEPT ![f] = IF bad[f] THEN "raised" ELSE "walked"]
    /\ UNCHANGED <<bad, task, outfile, outcome, mainpc>>
    /\ UNCHANGED <<pvars, dvars, xvars>>

\* process: the output file is written, process returns
ProcessWrite(f) ==
    /\ work[f] = "walked"
    /\ work' = [work EXCEPT ![f] = "returned"]
    /\ outfile' = [outfile EXCEPT ![f] = TRUE]
    /\ UNCHANGED <<bad, task, outcome, mainpc>>
    /\ UNCHANGED <<pvars, dvars, xvars>>

\* create after its await, when process has returned: the outcome is logged
CreateResume(f) ==
    /\ task[f] = "awaiting"
    /\ \A g \in Files : task[g] # "scheduled"
    /\ work[f] = "returned"
    /\ task' = [task EXCEPT ![f] = "finished"]
    /\ outcome' = [outcome EXCEPT ![f] = IF outfile[f] THEN "success" ELSE "failed"]
    /\ UNCHANGED <<bad, work, outfile, mainpc>>
    /\ UNCHANGED <<pvars, dvars, xvars>>

\* create after its await, when process has raised: the exception leaves create
CreateRaise(f) ==
    /\ task[f] = "awaiting"
    /\ \A g \in Files : task[g] # "scheduled"
    /\ work[f] = "raised"
    /\ task' = [task EXCEPT ![f] = "failed"]
    /\ UNCHANGED <<bad, work, outfile, outcome, mainpc>>
    /\ UNCHANGED <<pvars, dvars, xvars>>

\* main after gather, every task having finished: main returns
MainReturn ==
    /\ mainpc = "gather"
    /\ \A f \in Files : task[f] = "finished"
    /\ mainpc' = "returned"
    /\ UNCHANGED <<bad, task, work, outfile, outcome>>
    /\ UNCHANGED <<pvars, dvars, xvars>>

\* main after gather, a task having failed: main raises, and asyncio.run
\* cancels the tasks that have not ended and with them their queued work items
MainRaise ==
    /\ mainpc = "gather"
    /\ \E f \in Files : task[f] = "failed"
    /\ mainpc' = "raised"
    /\ task' = [f \in Files |-> IF TaskEnded(f) THEN task[f] ELSE "cancelled"]
    /\ work' = [f \in Files |->
                   IF ~TaskEnded(f) /\ work[f] = "queued" THEN "cancelled" ELSE work[f]]
    /\ UNCHANGED <<bad, outfile, outcome>>
    /\ UNCHANGED <<pvars, dvars, xvars>>

\* asyncio.run returns and the interpreter exits, the worker threads joined
ProcessExit ==
    /\ mainpc \in {"returned", "raised"}
    /\ \A f \in Files : WorkEnded(f)
    /\ mainpc' = "exited"
    /\ UNCHANGED <<bad, task, work, outfile, outcome>>
    /\ UNCHANGED <<pvars, dvars, xvars>>

\* no file is walked by the single pipeline
NoPipeline ==
    /\ family = "any"
    /\ lst = CollectListener
    /\ trace = <<>>
    /\ open = <<>>
    /\ pc = "walk"
    /\ exc = NoExc
    /\ out = NoFile
    /\ log = <<>>

InitMain ==
    /\ bad \in [Files -> BOOLEAN]
    /\ task = [f \in Files |-> "none"]
    /\ work = [f \in Files |-> "none"]
    /\ outfile = [f \in Files |-> FALSE]
    /\ outcome = [f \in Files |-> "none"]
    /\ mainpc = "start"
    /\ NoPipeline
    /\ NoDecode
    /\ NoPair

NextMain ==
    \/ MainGather
    \/ \E f \in Files : CreateSubmit(f)
    \/ \E f \in Files : WorkerStart(f)
    \/ \E f \in Files : ProcessWalk(f)
    \/ \E f \in Files : ProcessWrite(f)
    \/ \E f \in Files : CreateResume(f)
    \/ \E f \in Files : CreateRaise(f)
    \/ MainReturn
    \/ MainRaise
    \/ ProcessExit

SpecMain == InitMain /\ [][NextMain]_vars

----------------------------------------------------------------------------
(* The implements-list decoder on its own, over every child list of at     *)
(* most MaxChildren children.                                              *)

MaxChildren == 4

ChildTexts == {"I", "J", ","}

RECURSIVE SeqsUpTo(_, _)
\* the sequences over S of length at most n
SeqsUpTo(S, n) ==
    IF n = 0 THEN {<<>>}
    ELSE LET shorter == SeqsUpTo(S, n - 1)
         IN  shorter \cup {Append(q, x) : q \in shorter, x \in S}

DecodeImplements ==
    /\ ~dres.returned
    /\ dres' = [returned |-> TRUE, value |-> parse_implements_block(dctx)]
    /\ UNCHANGED <<dctx, pvars, mvars, xvars>>

InitDecode ==
    /\ dctx \in SeqsUpTo(ChildTexts, MaxChildren)
    /\ dres = [returned |-> FALSE, value |-> <<>>]
    /\ NoPipeline
    /\ NoBatch
    /\ NoPair

NextDecode == DecodeImplements

SpecDecode == InitDecode /\ [][NextDecode]_vars

----------------------------------------------------------------------------
(* Two pipelines side by side: the executor runs process for two files in  *)
(* two threads, each with the listener it has created.  What the two       *)
(* have in common are the class-level attributes of JavaFileAst, JavaClass *)
(* and JavaMethod: an attribute an instance has not bound is read from,    *)
(* and appended to, the class-level object.                                *)

\* the most notifications delivered to the two pipelines together
MaxPairEvents == 5

PairFiles == {1, 2}

\* a JavaClass as attribute lookup sees it
ViewClass(S, c) ==
    [c EXCEPT !.implements = IF "implements" \in c.own THEN @ ELSE S.implements,
              !.fields = IF "fields" \in c.own THEN @ ELSE S.fields,
              !.methods = IF "methods" \in c.own THEN @ ELSE S.methods,
              !.statements = IF "statements" \in c.own THEN @ ELSE S.class_statements]

\* a JavaMethod as attribute lookup sees it
ViewMethod(S, m) ==
    [m EXCEPT !.parameters = IF "parameters" \in m.own THEN @ ELSE S.parameters,
              !.statements = IF "statements" \in m.own THEN @ ELSE S.method_statements]

\* the listener L as attribute lookup sees it, S being the class-level objects
View(S, L) ==
    [L EXCEPT !.ast.imports = IF "imports" \in L.ast.own THEN @ ELSE S.imports,
              !.ast.classes = IF "classes" \in L.ast.own THEN @ ELSE S.classes,
              !.cheap = [i \in 1..Len(L.cheap) |-> ViewClass(S, L.cheap[i])],
              !.mheap = [i \in 1..Len(L.mheap) |-> ViewMethod(S, L.mheap[i])]]

\* a class-level object after a handler: the value seen through an instance
\* that does not bind the attribute, if the handler has changed it
ClassLevelAfter(old, seen) ==
    IF \E v \in seen : v # old THEN CHOOSE v \in seen : v # old ELSE old

\* the class-level objects after a handler has taken the view of L to V
SharedAfter(S, L, V) ==
    LET cs(a) == {i \in 1..Len(L.cheap) : a \notin L.cheap[i].own}
        ms(a) == {i \in 1..Len(L.mheap) : a \notin L.mheap[i].own}
    IN  [imports |-> IF "imports" \in L.ast.own THEN S.imports ELSE V.ast.imports,
         classes |-> IF "classes" \in L.ast.own THEN S.classes ELSE V.ast.classes,
         implements |->
             ClassLevelAfter(S.implements, {V.cheap[i].implements : i \in cs("implements")}),
         fields |-> ClassLevelAfter(S.fields, {V.cheap[i].fields : i \in cs("fields")}),
         methods |-> ClassLevelAfter(S.methods, {V.cheap[i].methods : i \in cs("methods")}),
         class_statements |->
             ClassLevelAfter(S.class_statements,
                             {V.cheap[i].statements : i \in cs("statements")}),
         parameters |->
             ClassLevelAfter(S.parameters, {V.mheap[i].parameters : i \in ms("parameters")}),
         method_statements |->
             ClassLevelAfter(S.method_statements,
                             {V.mheap[i].statements : i \in ms("statements")})]

\* the instances after a handler has taken the view of L to V: an instance
\* keeps what it has bound, and the objects created by the handler are added
InstancesAfter(L, V) ==
    LET class_(i) ==
            IF i > Len(L.cheap) THEN V.cheap[i]
            ELSE [a \in DOMAIN V.cheap[i] |->
                     IF a \in {"implements", "fields", "methods", "statements"}
                        /\ a \notin L.cheap[i].own
                     THEN L.cheap[i][a] ELSE V.cheap[i][a]]
        method_(i) ==
            IF i > Len(L.mheap) THEN V.mheap[i]
            ELSE [a \in DOMAIN V.mheap[i] |->
                     IF a \in {"parameters", "statements"} /\ a \notin L.mheap[i].own
                     THEN L.mheap[i][a] ELSE V.mheap[i][a]]
    IN  [V EXCEPT !.ast.imports = IF "imports" \in L.ast.own THEN @ ELSE L.ast.imports,
                  !.ast.classes = IF "classes" \in L.ast.own THEN @ ELSE L.ast.classes,
                  !.cheap = [i \in 1..Len(V.cheap) |-> class_(i)],
                  !.mheap = [i \in 1..Len(V.mheap) |-> method_(i)]]

\* the handler the walker calls for a notification
Handle(L, ev) ==
    CASE ev.kind = "enterPackage" -> enterPackageDeclaration(L, ev.ctx)
      [] ev.kind = "enterImport" -> enterImportDeclaration(L, ev.ctx)
      [] ev.kind = "enterClass" -> enterClassDeclaration(L, ev.ctx)
      [] ev.kind = "exitClass" -> exitClassDeclaration(L)
      [] ev.kind = "enterEnum" -> enterEnumDeclaration(L, ev.ctx)
      [] ev.kind = "exitEnum" -> exitEnumDeclaration(L)
      [] ev.kind = "enterField" -> enterFieldDeclaration(L, ev.ctx)
      [] ev.kind = "enterMethod" -> enterMethodDeclaration(L, ev.ctx)
      [] ev.kind = "exitMethod" -> exitMethodDeclaration(L)
      [] ev.kind = "enterMethodCall" -> enterMethodCall(L, ev.ctx)

\* one handler call on the listener L with the class-level objects S
HandlerCall(S, L, ev) ==
    LET r == Handle(View(S, L), ev)
    IN  [exc |-> r.exc, sh |-> SharedAfter(S, L, r.st), st |-> InstancesAfter(L, r.st)]

RECURSIVE Alone(_, _)
\* the first i notifications of tr delivered to a pipeline that runs alone
Alone(tr, i) ==
    IF i = 0 THEN [exc |-> NoExc, sh |-> ClassLevel, st |-> CollectListener]
    ELSE LET before == Alone(tr, i - 1)
         IN  HandlerCall(before.sh, before.st, tr[i])

\* class headers, signatures and callees of the files of the two pipelines
PairHeaders ==
    {Header(3, "C", "{}", "", <<>>), Header(5, "C", "implements", "", <<"I">>)}

PairSignature == [c0 |-> "int", c2 |-> [cc |-> 3, params |-> <<[type |-> "int", name |-> "a"]>>]]

PairDeliver(f, kind, ctx, open_) ==
    LET r == HandlerCall(shared, pp[f].lst, [kind |-> kind, ctx |-> ctx])
    IN  /\ pp[f].pc = "walk"
        /\ pp[f].exc = NoExc
        /\ Len(pp[1].trace) + Len(pp[2].trace) < MaxPairEvents
        /\ shared' = r.sh
        /\ pp' = [pp EXCEPT ![f] =
                     [@ EXCEPT !.lst = r.st,
                               !.trace = Append(@, [kind |-> kind, ctx |-> ctx]),
                               !.exc = r.exc,
                               !.open = IF r.exc = NoExc THEN open_ ELSE @]]
        /\ UNCHANGED <<pvars, mvars, dvars>>

PairImport(f) ==
    /\ pp[f].trace = <<>>
    /\ PairDeliver(f, "enterImport", [name |-> "java.util.List"], pp[f].open)

PairEnterClass(f) ==
    \E ctx \in PairHeaders :
        PairDeliver(f, "enterClass", ctx, Append(pp[f].open, "class"))

PairExitClass(f) ==
    /\ pp[f].open # <<>>
    /\ pp[f].open[Len(pp[f].open)] = "class"
    /\ PairDeliver(f, "exitClass", <<>>, SubSeq(pp[f].open, 1, Len(pp[f].open) - 1))

PairEnterField(f) ==
    PairDeliver(f, "enterField",
                [c0 |-> "int", c1 |-> "x", anc |-> Header(3, "C", "{}", "", <<>>)],
                pp[f].open)

PairEnterMethod(f) ==
    PairDeliver(f, "enterMethod",
                [c0 |-> PairSignature.c0, c1 |-> "m",
                 start |-> Len(pp[f].trace) + 1, stop |-> Len(pp[f].trace) + 1,
                 depth |-> Len(pp[f].open) + 1, c2 |-> PairSignature.c2],
                Append(pp[f].open, "method"))

PairExitMethod(f) ==
    /\ pp[f].open # <<>>
    /\ pp[f].open[Len(pp[f].open)] = "method"
    /\ PairDeliver(f, "exitMethod", <<>>, SubSeq(pp[f].open, 1, Len(pp[f].open) - 1))

PairMethodCall(f) ==
    PairDeliver(f, "enterMethodCall",
                [c0 |-> "foo", line |-> Len(pp[f].trace) + 1, column |-> 0],
                pp[f].open)

\* walker.walk has returned in the pipeline of f: the graph is written
PairWrite(f) ==
    /\ pp[f].pc = "walk"
    /\ pp[f].exc = NoExc
    /\ pp[f].open = <<>>
    /\ pp' = [pp EXCEPT ![f] =
                 [@ EXCEPT !.pc = "done",
                           !.out = [exists |-> TRUE, text |-> dot(View(shared, pp[f].lst))]]]
    /\ UNCHANGED <<shared, pvars, mvars, dvars>>

InitPair ==
    /\ shared = ClassLevel
    /\ pp = [f \in PairFiles |->
                [pc |-> "walk", lst |-> CollectListener, trace |-> <<>>, open |-> <<>>,
                 exc |-> NoExc, out |-> NoFile]]
    /\ NoPipeline
    /\ NoBatch
    /\ NoDecode

NextPair ==
    \E f \in PairFiles :
        \/ PairImport(f)
        \/ PairEnterClass(f)
        \/ PairExitClass(f)
        \/ PairEnterField(f)
        \/ PairEnterMethod(f)
        \/ PairExitMethod(f)
        \/ PairMethodCall(f)
        \/ PairWrite(f)

SpecPair == InitPair /\ [][NextPair]_vars

----------------------------------------------------------------------------
(* Properties *)

\* the notification delivered last
Last == trace[Len(trace)]

\* this step delivers a notification of the given kind
Delivers(kind) ==
    /\ Len(trace') = Len(trace) + 1
    /\ trace'[Len(trace')].kind = kind

\* C1: overload policy.  When a method declaration named m is entered while
\* the class registered at the current depth is one for which a declaration
\* named m was already entered while it was the registered class, the model
\* is left as it is (no Method entry is created or replaced, so the entry
\* built from the first declaration stays) and a warning naming m is logged.
C1_OverloadPolicy ==
    [][(/\ Delivers("enterMethod")
        /\ trace'[Len(trace')].cur # None
        /\ \E i \in 1..Len(trace) :
              /\ trace[i].kind = "enterMethod"
              /\ trace[i].cur = trace'[Len(trace')].cur
              /\ trace[i].ctx.c1 = trace'[Len(trace')].ctx.c1)
       => (/\ lst'.ast = lst.ast
           /\ lst'.cheap = lst.cheap
           /\ lst'.mheap = lst.mheap
           /\ log' = Append(log, [level |-> "warning",
                                  name |-> trace'[Len(trace')].ctx.c1]))]_vars

\* the number of class and enum declarations entered and not yet exited
OpenClasses == Cardinality({i \in 1..Len(open) : open[i] \in {"class", "enum"}})

\* C2: scope depth is never negative and is the number of class and enum
\* declarations the walker has entered and not yet exited.
C2_DepthIsOpenClasses ==
    /\ lst.deep >= 0
    /\ lst.deep = OpenClasses

\* C2 witness: a nested declaration has been exited inside an open one
C2_Witness ==
    /\ exc = NoExc
    /\ trace # <<>>
    /\ Last.kind \in {"exitClass", "exitEnum"}
    /\ lst.deep = 1
    /\ OpenClasses = 1

\* C3: failure isolation.  When the run has ended, every file whose walk does
\* not raise has its output file written and a success outcome logged, every
\* file whose walk raises has a failure outcome logged and no output file:
\* N - M output files, N - M successes and M failures.
C3_FailureIsolation ==
    mainpc = "exited" =>
        /\ Cardinality({f \in Files : outfile[f]})
               = NFiles - Cardinality({f \in Files : bad[f]})
        /\ \A f \in Files : outfile[f] = ~bad[f]
        /\ \A f \in Files : outcome[f] = IF bad[f] THEN "failed" ELSE "success"

\* C4: wait for all.  main has ended (returned or raised) only when the
\* pipeline of every file has finished, by returning or by raising.
C4_WaitForAll ==
    mainpc \in {"returned", "raised", "exited"} =>
        \A f \in Files : work[f] \in {"returned", "raised"}

\* C5: no partial output.  The output file exists only when process has
\* walked the whole stream without an exception, and then holds the rendered
\* model; once a handler has raised, there is no output file.
C5_NoPartialOutput ==
    /\ exc # NoExc => out = NoFile
    /\ out.exists => /\ pc = "done"
                     /\ exc = NoExc
                     /\ open = <<>>
                     /\ out.text = dot(lst)

\* C5 witness: a handler has raised on a half-built model, nothing is written
C5_Witness ==
    /\ exc # NoExc
    /\ lst.ast.classes # <<>>
    /\ lst.mheap # <<>>
    /\ out = NoFile

\* C6: field cross-check.  On a field declaration whose fourth ancestor
\* decodes to a name, with a class registered at the current depth: if the
\* name differs from that class's the handler raises and the listener is
\* unchanged; if they agree one Field (child 0, child 1) is appended to the
\* fields of the class registered at the current depth, nothing else changes.
C6_FieldCrossCheck ==
    [][(/\ Delivers("enterField")
        /\ trace'[Len(trace')].cur # None
        /\ parse_class_block(lst, trace'[Len(trace')].ctx.anc).exc = NoExc)
       => LET n == trace'[Len(trace')]
              r == parse_class_block(lst, n.ctx.anc)
          IN  IF r.name # lst.cheap[n.cur].name
              THEN exc' # NoExc /\ lst' = lst
              ELSE /\ exc' = NoExc
                   /\ lst' = [lst EXCEPT !.cheap[n.cur].fields =
                                 Append(@, [type |-> n.ctx.c0, define |-> n.ctx.c1])]]_vars

\* the stream of a file with a package declaration and one class C with one
\* method m calling foo() then bar()
RoundTripStream ==
    /\ Len(trace) = 7
    /\ [i \in 1..7 |-> trace[i].kind]
          = <<"enterPackage", "enterClass", "enterMethod", "enterMethodCall",
              "enterMethodCall", "exitMethod", "exitClass">>
    /\ trace[2].ctx.c1 = "C"
    /\ trace[3].ctx.c1 = "m"
    /\ trace[4].ctx.c0 = "foo"
    /\ trace[5].ctx.c0 = "bar"

\* C7: round trip.  After that stream the model has the package name, one
\* class C without direct statements and with one method m whose statements
\* are foo, bar, and the graph written has the edges C->m, m->foo, m->bar in
\* that order and no other edge.
C7_RoundTrip ==
    (RoundTripStream /\ pc = "done") =>
        /\ lst.ast.package_name = trace[1].ctx.name
        /\ lst.ast.package_name # ""
        /\ Len(lst.ast.classes) = 1
        /\ lst.ast.classes[1].k = "C"
        /\ LET c == lst.cheap[lst.ast.classes[1].v]
           IN  /\ c.name = "C"
               /\ c.statements = <<>>
               /\ Len(c.methods) = 1
               /\ c.methods[1].k = "m"
               /\ lst.mheap[c.methods[1].v].name = "m"
               /\ [i \in 1..Len(lst.mheap[c.methods[1].v].statements) |->
                      lst.mheap[c.methods[1].v].statements[i].value] = <<"foo", "bar">>
        /\ digraph(lst) = <<"digraph \"callGraph\" {", "\"C\"", "\"m\"",
                            "\"C\" -> \"m\";", "\"m\" -> \"foo\";",
                            "\"m\" -> \"bar\";", "}">>
        /\ out.exists
        /\ out.text = "digraph \"callGraph\" {\n\"C\"\n\"m\"\n\"C\" -> \"m\";\n\"m\" -> \"foo\";\n\"m\" -> \"bar\";\n}"

\* C7 witness: the stream has been walked and the graph written
C7_Witness == RoundTripStream /\ pc = "done"

\* C8: three-child class header.  After a class declaration with exactly
\* three children is entered, the decoder's result for it is (child 1's
\* text, "", the empty list) and the ClassDecl created stores the empty list.
C8_ThreeChildHeader ==
    (/\ trace # <<>>
     /\ Last.kind = "enterClass"
     /\ Last.ctx.cc = 3
     /\ exc = NoExc)
    => /\ parse_class_block(lst, Last.ctx).name = Last.ctx.c1
       /\ parse_class_block(lst, Last.ctx).extends = ""
       /\ parse_class_block(lst, Last.ctx).implements = [py |-> "list", v |-> <<>>]
       /\ lst.cheap[Len(lst.cheap)].name = Last.ctx.c1
       /\ lst.cheap[Len(lst.cheap)].implements = [py |-> "list", v |-> <<>>]

\* C9: implements list.  For a list of k >= 1 children the decoder returns
\* ceil(k/2) names, the j-th being the text of child 2(j-1) (0-based).
C9_ImplementsList ==
    (dres.returned /\ Len(dctx) >= 1) =>
        /\ Len(dres.value) = (Len(dctx) + 1) \div 2
        /\ \A j \in 1..Len(dres.value) : dres.value[j] = dctx[2 * j - 1]

\* C9 witness: a list of four children has been decoded
C9_Witness ==
    /\ dres.returned
    /\ Len(dctx) = 4
    /\ dctx[1] # dctx[3]
    /\ Len(dres.value) = 2

RECURSIVE Sum(_, _)
\* f[1] + ... + f[n]
Sum(f, n) == IF n = 0 THEN 0 ELSE f[n] + Sum(f, n - 1)

\* the i-th class of the model, and its q-th method, in the order recorded
ClassAt(i) == lst.cheap[lst.ast.classes[i].v]

MethodAt(i, q) == lst.mheap[ClassAt(i).methods[q].v]

\* the lines a method and a class account for: a node line and one edge
\* line per method, per class-level statement and per method statement
MethodBlock(i, q) == 2 + Len(MethodAt(i, q).statements)

ClassBlock(i) ==
    1 + Len(ClassAt(i).statements)
      + Sum([q \in 1..Len(ClassAt(i).methods) |-> MethodBlock(i, q)],
            Len(ClassAt(i).methods))

\* the number of lines before the node line of class i, of its method q
ClassOffset(i) == 1 + Sum([j \in 1..(i - 1) |-> ClassBlock(j)], i - 1)

MethodOffset(i, q) ==
    ClassOffset(i) + 1 + Len(ClassAt(i).statements)
      + Sum([r \in 1..(q - 1) |-> MethodBlock(i, r)], q - 1)

ExpectedNode(a) == "\"" \o a \o "\""

ExpectedEdge(a, b) == "\"" \o a \o "\" -> \"" \o b \o "\";"

\* C10: rendered graph.  Between the header line and the closing brace the
\* text has, for each class in the order recorded, its node line, one edge
\* line class -> callee per direct statement in order, and for each method
\* in order its node line, the edge class -> method and one edge line
\* method -> callee per statement in order; nothing else, nothing merged.
C10_RenderedLines ==
    LET g == digraph(lst)
        n == Len(lst.ast.classes)
    IN  /\ Len(g) = 2 + Sum([i \in 1..n |-> ClassBlock(i)], n)
        /\ g[1] = "digraph \"callGraph\" {"
        /\ g[Len(g)] = "}"
        /\ \A i \in 1..n :
              LET name == lst.ast.classes[i].k
              IN  /\ g[ClassOffset(i) + 1] = ExpectedNode(name)
                  /\ \A t \in 1..Len(ClassAt(i).statements) :
                        g[ClassOffset(i) + 1 + t]
                            = ExpectedEdge(name, ClassAt(i).statements[t].value)
                  /\ \A q \in 1..Len(ClassAt(i).methods) :
                        LET mname == ClassAt(i).methods[q].k
                        IN  /\ g[MethodOffset(i, q) + 1] = ExpectedNode(mname)
                            /\ g[MethodOffset(i, q) + 2] = ExpectedEdge(name, mname)
                            /\ \A t \in 1..Len(MethodAt(i, q).statements) :
                                  g[MethodOffset(i, q) + 2 + t]
                                      = ExpectedEdge(mname, MethodAt(i, q).statements[t].value)

\* C10 witness: a finished model whose class has a direct statement and a
\* method calling the same callee twice; the graph is written
C10_Witness ==
    /\ pc = "done"
    /\ \E i \in 1..Len(lst.ast.classes) :
          /\ ClassAt(i).statements # <<>>
          /\ \E q \in 1..Len(ClassAt(i).methods) :
                /\ Len(MethodAt(i, q).statements) = 2
                /\ MethodAt(i, q).statements[1].value = MethodAt(i, q).statements[2].value


\* the listener and the result a pipeline would have had its file been
\* processed alone
AloneRun(f) == Alone(pp[f].trace, Len(pp[f].trace))

\* every list and mapping of the objects of L is bound by the instance
OwnsAll(L) ==
    /\ L.ast.own = {"imports", "classes"}
    /\ \A i \in 1..Len(L.cheap) :
           L.cheap[i].own = {"implements", "fields", "methods", "statements"}
    /\ \A i \in 1..Len(L.mheap) : L.mheap[i].own = {"parameters", "statements"}

\* C11: no cross-file shared state.  Under every interleaving of the two
\* pipelines no handler reads or writes a class-level list or mapping (every
\* object binds its own imports, classes, implements, fields, methods,
\* statements and parameters), and the FileModel, the failure and the
\* rendered text of each file are those of the file processed alone.
C11_NoSharedState ==
    /\ shared = ClassLevel
    /\ \A f \in PairFiles :
           LET a == AloneRun(f)
           IN  /\ OwnsAll(pp[f].lst)
               /\ View(shared, pp[f].lst) = View(a.sh, a.st)
               /\ pp[f].exc = a.exc
               /\ pp[f].out.exists => pp[f].out.text = dot(View(a.sh, a.st))

\* file 1 has been written with a call of its class C in it while file 2
\* is still walked and has a call recorded in its own class C
C11_Witness ==
    /\ pp[1].pc = "done"
    /\ \E i \in 1..Len(pp[1].lst.cheap) : pp[1].lst.cheap[i].statements # <<>>
    /\ pp[2].pc = "walk"
    /\ \E i \in 1..Len(pp[2].lst.cheap) : pp[2].lst.cheap[i].statements # <<>>


C13_CallAttribution ==
    [][Delivers("enterMethodCall")
       => LET n == trace'[Len(trace')]
              statement == [value |-> n.ctx.c0, line |-> n.ctx.line,
                            column |-> n.ctx.column]
          IN  IF lst.current_method # None
              THEN /\ exc' = NoExc
                   /\ lst' = [lst EXCEPT !.mheap[lst.current_method].statements =
                                 Append(@, statement)]
              ELSE IF n.cur # None
              THEN /\ exc' = NoExc
                   /\ lst' = [lst EXCEPT !.cheap[n.cur].statements = Append(@, statement)]
              ELSE exc' # NoExc /\ lst' = lst]_vars

RECURSIVE EntersOpen(_)
\* the positions in trace of the declarations entered and not exited after
\* the first i notifications, outermost first
EntersOpen(i) ==
    IF i = 0 THEN <<>>
    ELSE LET s == EntersOpen(i - 1)
         IN  CASE trace[i].kind \in {"enterClass", "enterEnum", "enterMethod"} -> Append(s, i)
               [] trace[i].kind \in {"exitClass", "exitEnum", "exitMethod"} ->
                      SubSeq(s, 1, Len(s) - 1)
               [] OTHER -> s

\* the innermost declaration entered and not exited (0 if there is none)
Innermost ==
    LET s == EntersOpen(Len(trace)) IN IF s = <<>> THEN 0 ELSE s[Len(s)]

\* notification i is a method declaration for which a Method was created
\* (a Method carries the line of its declaration)
CreatedMethod(i) ==
    /\ trace[i].kind = "enterMethod"
    /\ \E j \in 1..Len(lst.mheap) : lst.mheap[j].start = trace[i].ctx.start

\* notification i is a method declaration that was skipped as a duplicate
SkippedMethod(i) ==
    /\ trace[i].kind = "enterMethod"
    /\ ~CreatedMethod(i)

\* C14: skipped duplicate method.  A method declaration naming a method
\* already present on the class registered at the current depth creates no
\* Method and leaves the current-method pointer as it is; and a method call
\* arriving while the innermost open declaration is such a skipped duplicate
\* is appended to the direct statements of the enclosing class (the class
\* registered at the current depth), not to any method's statements.
C14_SkippedDuplicate ==
    [][LET n == trace'[Len(trace')]
       IN  /\ (/\ Delivers("enterMethod")
               /\ n.cur # None
               /\ DictHas(lst.cheap[n.cur].methods, n.ctx.c1))
              => (/\ exc' = NoExc
                  /\ lst'.mheap = lst.mheap
                  /\ lst'.current_method = lst.current_method)
           /\ (/\ Delivers("enterMethodCall")
               /\ Innermost # 0
               /\ SkippedMethod(Innermost))
              => (/\ exc' = NoExc
                  /\ lst'.mheap = lst.mheap
                  /\ lst'.cheap = [lst.cheap EXCEPT ![n.cur].statements =
                                      Append(@, [value |-> n.ctx.c0, line |-> n.ctx.line,
                                                 column |-> n.ctx.column])])]_vars

\* the keys of a dict
Keys(d) == {d[i].k : i \in 1..Len(d)}

\* C15: class entry, last class wins.  A class or enum declaration whose
\* header decodes to name n adds one to the depth, creates one ClassDecl
\* with the decoded name, extends and implements and no fields, methods or
\* statements, makes it the entry of classes under n (in place of an earlier
\* entry, whose ClassDecl and everything recorded on it is no longer in
\* classes) and registers the same ClassDecl at the new depth; the other
\* entries and registrations, the Methods and the current-method pointer stay.
C15_LastClassWins ==
    [][((Delivers("enterClass") \/ Delivers("enterEnum"))
        /\ parse_class_block(lst, trace'[Len(trace')].ctx).exc = NoExc)
       => LET r == parse_class_block(lst, trace'[Len(trace')].ctx)
              new == Len(lst.cheap) + 1
          IN  /\ exc' = NoExc
              /\ lst'.deep = lst.deep + 1
              /\ Len(lst'.cheap) = new
              /\ \A i \in 1..Len(lst.cheap) : lst'.cheap[i] = lst.cheap[i]
              /\ lst'.cheap[new].name = r.name
              /\ lst'.cheap[new].extends = r.extends
              /\ lst'.cheap[new].implements = r.implements
              /\ lst'.cheap[new].fields = <<>>
              /\ lst'.cheap[new].methods = <<>>
              /\ lst'.cheap[new].statements = <<>>
              /\ Keys(lst'.ast.classes) = Keys(lst.ast.classes) \cup {r.name}
              /\ DictGet(lst'.ast.classes, r.name) = new
              /\ \A k \in Keys(lst.ast.classes) \ {r.name} :
                    DictGet(lst'.ast.classes, k) = DictGet(lst.ast.classes, k)
              /\ Keys(lst'.deep_class) = Keys(lst.deep_class) \cup {lst'.deep}
              /\ DictGet(lst'.deep_class, lst'.deep) = new
              /\ \A d \in Keys(lst.deep_class) \ {lst'.deep} :
                    DictGet(lst'.deep_class, d) = DictGet(lst.deep_class, d)
              /\ lst'.mheap = lst.mheap
              /\ lst'.current_method = lst.current_method
              /\ lst'.ast.package_name = lst.ast.package_name
              /\ lst'.ast.imports = lst.ast.imports]_vars

\* C15 witness: a declaration of a name has replaced the entry of an earlier
\* declaration of that name on which a call had been recorded, and the new
\* ClassDecl is the one registered at the current depth
C15_Witness ==
    /\ exc = NoExc
    /\ trace # <<>>
    /\ Len(lst.cheap) >= 2
    /\ Last.kind \in {"enterClass", "enterEnum"}
    /\ \E i \in 1..Len(lst.cheap) - 1 :
          /\ lst.cheap[i].name = lst.cheap[Len(lst.cheap)].name
          /\ lst.cheap[i].statements # <<>>
    /\ DictGet(lst.ast.classes, lst.cheap[Len(lst.cheap)].name) = Len(lst.cheap)
    /\ DictGet(lst.deep_class, lst.deep) = Len(lst.cheap)

\* C16: class-header decode failure leaves the state untouched.  A class or
\* enum declaration whose header has a child count other than 2, 3, 5 and 7,
\* or has 2 children while no class is registered at the current depth,
\* raises, and changes neither the depth, nor the depth-to-class map, nor
\* classes (no ClassDecl is created), nor the current-method pointer.
C16_DecodeFailure ==
    [][((Delivers("enterClass") \/ Delivers("enterEnum"))
        /\ LET n == trace'[Len(trace')]
           IN  \/ n.ctx.cc \notin {2, 3, 5, 7}
               \/ n.ctx.cc = 2 /\ n.cur = None)
       => (/\ exc' # NoExc
           /\ lst'.deep = lst.deep
           /\ lst'.deep_class = lst.deep_class
           /\ lst'.ast.classes = lst.ast.classes
           /\ lst'.cheap = lst.cheap
           /\ lst'.current_method = lst.current_method)]_vars

\* C16 witness: a header with a child count other than 2, 3, 5 and 7 has
\* failed to decode inside an open class with a method open
C16_Witness ==
    /\ exc # NoExc
    /\ trace # <<>>
    /\ Last.kind \in {"enterClass", "enterEnum"}
    /\ Last.ctx.cc \notin {2, 3, 5, 7}
    /\ lst.deep >= 1
    /\ lst.current_method # None

\* the listener just before notification i was delivered
Before(i) == Alone(trace, i - 1).st

\* C17: scope-map shape.  In every state of a properly nested stream the
\* depths with a registered class are exactly 1..depth; a class or enum exit
\* removes the registration at the current depth and no other, and leaves
\* depth and map as they were just before the matching enter; and when the
\* stream has ended the depth is 0, the map is empty and there is no current
\* method.
C17_ScopeMapShape ==
    /\ [](/\ Keys(lst.deep_class) = 1..lst.deep
          /\ pc = "done" => /\ lst.deep = 0
                            /\ lst.deep_class = <<>>
                            /\ lst.current_method = None)
    /\ [][(Delivers("exitClass") \/ Delivers("exitEnum"))
          => /\ exc' = NoExc
             /\ Keys(lst'.deep_class) = Keys(lst.deep_class) \ {lst.deep}
             /\ \A d \in Keys(lst'.deep_class) :
                   DictGet(lst'.deep_class, d) = DictGet(lst.deep_class, d)
             /\ Innermost # 0
             /\ trace[Innermost].kind \in {"enterClass", "enterEnum"}
             /\ lst'.deep = Before(Innermost).deep
             /\ lst'.deep_class = Before(Innermost).deep_class]_vars

\* C17 witness: a stream with a class entered and exited inside an open
\* class that has a method has ended
C17_Witness ==
    /\ pc = "done"
    /\ lst.mheap # <<>>
    /\ \E i \in 1..Len(trace) : trace[i].kind = "enterClass" /\ trace[i].cur # None

\* C18: scope/model agreement.  In every state, for every depth with a
\* registered class, the ClassDecl registered there is the entry of classes
\* under its name; so the class the handlers test (the registered one) and
\* the class they record Fields, Methods and Statements on (the entry under
\* its name) are the same ClassDecl.
C18_ScopeModelAgreement ==
    \A d \in Keys(lst.deep_class) :
        LET registered == DictGet(lst.deep_class, d)
        IN  /\ DictHas(lst.ast.classes, lst.cheap[registered].name)
            /\ DictGet(lst.ast.classes, lst.cheap[registered].name) = registered

\* C19: method attribution across nesting.  A method call arriving while a
\* method declaration that created a Method is entered and not exited is
\* appended to the statements of some Method and to no class's direct
\* statements, also after another method declaration has been entered and
\* exited inside the open one.
C19_MethodAttribution ==
    [][(/\ Delivers("enterMethodCall")
        /\ \E p \in 1..Len(EntersOpen(Len(trace))) :
              CreatedMethod(EntersOpen(Len(trace))[p]))
       => LET n == trace'[Len(trace')]
              statement == [value |-> n.ctx.c0, line |-> n.ctx.line,
                            column |-> n.ctx.column]
          IN  /\ exc' = NoExc
              /\ lst'.cheap = lst.cheap
              /\ \E j \in 1..Len(lst.mheap) :
                    lst'.mheap = [lst.mheap EXCEPT ![j].statements = Append(@, statement)]]_vars

\* the number of method-call notifications delivered
CallsDelivered == Cardinality({i \in 1..Len(trace) : trace[i].kind = "enterMethodCall"})

\* the number of Statements of the model: over the classes of classes, their
\* direct statements and the statements of their methods
StatementsRecorded ==
    Sum([i \in 1..Len(lst.ast.classes) |->
            Len(ClassAt(i).statements)
            + Sum([q \in 1..Len(ClassAt(i).methods) |-> Len(MethodAt(i, q).statements)],
                  Len(ClassAt(i).methods))],
        Len(lst.ast.classes))

\* the number of call edges among the lines: edges to a callee, that is all
\* edges but the class -> method ones
CallEdges(lines) ==
    Cardinality({i \in 1..Len(lines) :
                    \E from \in ClassNames \cup {"m", "n"}, callee \in Callees :
                        lines[i] = EdgeLine(from, callee)})

\* no two class or enum declarations have decoded to the same name
DistinctClassNames ==
    \A i, j \in 1..Len(lst.cheap) : i # j => lst.cheap[i].name # lst.cheap[j].name

\* C20: call conservation.  When a stream in which no two class or enum
\* declarations decode to the same name has been processed without error,
\* the Statements of the final model are as many as the method calls
\* notified, and the graph written has as many call edges.
C20_CallConservation ==
    (pc = "done" /\ DistinctClassNames)
        => /\ StatementsRecorded = CallsDelivered
           /\ out.text = Join(digraph(lst), 1)
           /\ CallEdges(digraph(lst)) = CallsDelivered

\* C20 witness: a stream with a method and a call inside a skipped duplicate
\* of that method has been processed and written
C20_Witness ==
    /\ pc = "done"
    /\ DistinctClassNames
    /\ \E i \in 1..Len(trace) :
          /\ SkippedMethod(i)
          /\ i < Len(trace)
          /\ trace[i + 1].kind = "enterMethodCall"
    /\ StatementsRecorded >= 1

====
